---- MODULE Spec2Model ----
(***************************************************************************)
(* Model of the MTH WTIU handler (mcu_mth_handler.ino) and of its Speck    *)
(* cipher (speck_functions.cpp / speck_functions.h).                       *)
(*                                                                         *)
(* Strings are sequences of byte values (ASCII codes).  C arrays keep      *)
(* their 0-based indices and are functions with domain 0..n-1.             *)
(***************************************************************************)
EXTENDS Integers, Sequences, FiniteSets, TLC

VARIABLES
    pc,                       \* position of the single thread of control
    now,                      \* millis()
    iter,                     \* completed loop() iterations
    wifi_up,                  \* WiFi.status() == WL_CONNECTED
    link_up,                  \* wtiu_client.connected()
    wtiu_connected,
    wtiu_host,
    wtiu_port,
    last_connection_attempt,
    protowhistle_enabled,
    protowhistle_pitch,
    key,
    round_keys,
    encryption_enabled,
    serial_avail,             \* bytes waiting in the Serial receive buffer
    bytes_received,           \* static counter of receiveCommandFromMPU
    rx_bytes,                 \* intake harness: bytes the MPU has written so far
    n_dispatched,             \* intake harness: executeMTHCommand calls so far
    last_cmd,                 \* record handed to the last executeMTHCommand
    sent,                     \* strings it handed to sendMTHCommand, in order
    accepted,                 \* for each of them: was it written to the client
    conn_at_dispatch,         \* was the manager Connected when it ran
    pw_at_dispatch,           \* protowhistle_enabled when it started
    wire,                     \* bytes it handed to wtiu_client.write
    write_failed,             \* did a write fail in this pass of loop() (no code reads it)
    acks,                     \* response packets it wrote to Serial
    attempt_log,              \* the last two discoverWTIU calls: time and caller
    pt,                       \* cipher harness: plaintext block
    ct,                       \* cipher harness: ciphertext block
    mdns_answer,              \* discovery harness: what the network answered last
    whistle_sounding,         \* whistle harness: last w2/bFFFD of a whistle record was w2
    clock_last,               \* clock harness: last_connection_attempt, 32 bits
    clock_elapsed,            \* clock harness: milliseconds gone by since, 32 bits
    clock_due                 \* clock harness: what the retry gate answered

vars == <<pc, now, iter, wifi_up, link_up, wtiu_connected, wtiu_host, wtiu_port,
          last_connection_attempt, protowhistle_enabled, protowhistle_pitch,
          key, round_keys, encryption_enabled, serial_avail, bytes_received,
          rx_bytes, n_dispatched,
          last_cmd, sent, accepted, conn_at_dispatch, pw_at_dispatch, wire,
          write_failed, acks, attempt_log, pt, ct, mdns_answer, whistle_sounding,
          clock_last, clock_elapsed, clock_due>>

-----------------------------------------------------------------------------
(* Program constants *)

CMD_SPEED == 1
CMD_DIRECTION == 2
CMD_BELL == 3
CMD_WHISTLE == 4
CMD_STARTUP == 5
CMD_SHUTDOWN == 6
CMD_ENGINE_SELECT == 7
CMD_PROTOWHISTLE == 8
\* CMD_WLED is used as a case label but not #defined in the sources at hand;
\* any value outside 1..8 that fits command_type gives the same behaviour.
CMD_WLED == 9

CONNECTION_RETRY_INTERVAL == 5000
DEFAULT_PORT == 8882
SPECK_ROUNDS == 22
SPECK_KEY_LEN == 4
WORD_BITS == 16

WordMod == 2 ^ WORD_BITS

-----------------------------------------------------------------------------
(* Bit operations on naturals *)

RECURSIVE BitOr(_, _)
BitOr(a, b) ==
    IF a = 0 THEN b
    ELSE IF b = 0 THEN a
    ELSE (IF a % 2 = 1 \/ b % 2 = 1 THEN 1 ELSE 0) + 2 * BitOr(a \div 2, b \div 2)

RECURSIVE BitAnd(_, _)
BitAnd(a, b) ==
    IF a = 0 \/ b = 0 THEN 0
    ELSE (IF a % 2 = 1 /\ b % 2 = 1 THEN 1 ELSE 0) + 2 * BitAnd(a \div 2, b \div 2)

RECURSIVE BitXor(_, _)
BitXor(a, b) ==
    IF a = 0 THEN b
    ELSE IF b = 0 THEN a
    ELSE ((a + b) % 2) + 2 * BitXor(a \div 2, b \div 2)

Shl(x, r) == x * (2 ^ r)
Shr(x, r) == x \div (2 ^ r)
U16(x) == x % WordMod

\* The macros work on the promoted int; the result is cut to 16 bits by the
\* assignment to a SPECK_TYPE that every use is wrapped in.
\* mutant: a right shift, the bits pushed out at the low end lost
ROR_shift(x, r) == Shr(x, r)

ROR(x, r) == BitOr(Shr(x, r), Shl(x, WORD_BITS - r))
ROL(x, r) == BitOr(Shl(x, r), Shr(x, WORD_BITS - r))

\* RRR(x, y, k): (x = ROR(x, 7), x += y, x ^= k, y = ROL(y, 2), y ^= x)
RRR(x, y, k) ==
    LET x1 == U16(ROR(x, 7))
        x2 == U16(x1 + y)
        x3 == BitXor(x2, k)
        y1 == U16(ROL(y, 2))
        y2 == BitXor(y1, x3)
    IN  [x |-> x3, y |-> y2]

-----------------------------------------------------------------------------
(* speck_functions.cpp *)

RECURSIVE ExpandLoop(_, _, _, _)
ExpandLoop(i, b, a, S) ==
    IF i >= SPECK_ROUNDS THEN S
    ELSE LET j == i % (SPECK_KEY_LEN - 1)
             r == RRR(b, a[j], i)
         IN  CASE r.x \in Nat /\ r.y \in Nat ->
                 ExpandLoop(i + 1, r.x, [a EXCEPT ![j] = r.y], [S EXCEPT ![i] = b])

\* mutant: the key words taken in the opposite order
speck_expand_reversed(K) ==
    ExpandLoop(0, K[SPECK_KEY_LEN - 1],
               [i \in 0..(SPECK_KEY_LEN - 2) |-> K[SPECK_KEY_LEN - 2 - i]],
               [i \in 0..(SPECK_ROUNDS - 1) |-> 0])

\* mutant: the copy into a[] never reaching the last key word
speck_expand_short(K) ==
    ExpandLoop(0, K[0], [i \in 0..(SPECK_KEY_LEN - 2) |-> K[(i % 2) + 1]],
               [i \in 0..(SPECK_ROUNDS - 1) |-> 0])

speck_expand(K) ==
    ExpandLoop(0, K[0], [i \in 0..(SPECK_KEY_LEN - 2) |-> K[i + 1]],
               [i \in 0..(SPECK_ROUNDS - 1) |-> 0])

RECURSIVE EncryptLoop(_, _, _, _)
EncryptLoop(i, c0, c1, K) ==
    IF i >= SPECK_ROUNDS THEN [j \in 0..1 |-> IF j = 0 THEN c0 ELSE c1]
    ELSE LET d1 == BitXor(U16(U16(ROL(c1, 2)) + c0), K[i])
             d0 == BitXor(U16(ROR(c0, 7)), d1)
         IN  CASE d0 \in Nat /\ d1 \in Nat -> EncryptLoop(i + 1, d0, d1, K)

\* mutant: the round loop started at 1, the first schedule word never used
speck_encrypt_skip(p, K) == EncryptLoop(1, p[0], p[1], K)

speck_encrypt(p, K) == EncryptLoop(0, p[0], p[1], K)

-----------------------------------------------------------------------------
(* Speck32/64 as published (Beaulieu et al., "The SIMON and SPECK Families   *)
(* of Lightweight Block Ciphers"): round (x, y) -> ((x >>> 7) + y) xor k,    *)
(* (y <<< 2) xor x'; key schedule l[i+3] = (k[i] + (l[i] >>> 7)) xor i,      *)
(* k[i+1] = (k[i] <<< 2) xor l[i+3].  Used only to state the cross-check.    *)

RefRound(x, y, k) ==
    LET x1 == BitXor(U16(U16(ROR(x, 7)) + y), k)
    IN  [x |-> x1, y |-> BitXor(U16(ROL(y, 2)), x1)]

RECURSIVE RefSchedule(_, _, _, _)
RefSchedule(i, k, l, rk) ==
    IF i >= SPECK_ROUNDS THEN rk
    ELSE LET j == i % 3
             r == RefRound(l[j], k, i)
         IN  CASE r.x \in Nat /\ r.y \in Nat ->
                 RefSchedule(i + 1, r.y, [l EXCEPT ![j] = r.x], [rk EXCEPT ![i] = k])

RECURSIVE RefRounds(_, _, _, _)
RefRounds(i, x, y, rk) ==
    IF i >= SPECK_ROUNDS THEN [x |-> x, y |-> y]
    ELSE LET r == RefRound(x, y, rk[i])
         IN  CASE r.x \in Nat /\ r.y \in Nat -> RefRounds(i + 1, r.x, r.y, rk)

\* k0 is the first round key, l the three other key words l0, l1, l2.
RefSpeck(k0, l, x, y) ==
    RefRounds(0, x, y, RefSchedule(0, k0, l, [i \in 0..(SPECK_ROUNDS - 1) |-> 0]))

-----------------------------------------------------------------------------
(* Strings *)

Min(a, b) == IF a < b THEN a ELSE b

\* printf's %d of a non-negative int
RECURSIVE Dec(_)
Dec(n) == IF n < 10 THEN <<48 + n>> ELSE Append(Dec(n \div 10), 48 + (n % 10))

\* snprintf(buf, size, ...): at most size - 1 characters are stored
Snprintf(size, s) == SubSeq(s, 1, Min(Len(s), size - 1))

STR_d1 == <<100, 49>>
STR_d0 == <<100, 48>>
STR_w4 == <<119, 52>>
STR_bFFFB == <<98, 70, 70, 70, 66>>
STR_w2 == <<119, 50>>
STR_bFFFD == <<98, 70, 70, 70, 68>>
STR_ab20 == <<97, 98, 50, 48>>
STR_ab21 == <<97, 98, 50, 49>>
STR_u4 == <<117, 52>>
STR_u5 == <<117, 53>>
PFX_y == <<121>>
PFX_s == <<115>>
PFX_w == <<119>>
PFX_ab == <<97, 98>>
CRLF == <<13, 10>>

-----------------------------------------------------------------------------
(* sendMTHCommand *)

\* the guard of sendMTHCommand: true when the command is written
CanSend == wtiu_connected /\ link_up

\* mutant: a whole block of padding added to a length that is a multiple of 4
PaddedLen_extra(cmd_len) == ((cmd_len \div 4) + 1) * 4

\* padded_len and padded_cmd
PaddedLen(cmd_len) == ((cmd_len + 3) \div 4) * 4

PaddedCmd(cmd) ==
    [i \in 0..(PaddedLen(Len(cmd)) - 1) |-> IF i < Len(cmd) THEN cmd[i + 1] ELSE 0]

\* one pass of the encryption loop: the four bytes written for the chunk at i
BlockBytes(padded_cmd, i, K) ==
    LET p == [j \in 0..1 |->
                 IF j = 0 THEN U16(BitOr(Shl(padded_cmd[i], 8), padded_cmd[i + 1]))
                 ELSE U16(BitOr(Shl(padded_cmd[i + 2], 8), padded_cmd[i + 3]))]
        c == speck_encrypt(p, K)
    IN  << Shr(c[0], 8) % 256, BitAnd(c[0], 255) % 256,
           Shr(c[1], 8) % 256, BitAnd(c[1], 255) % 256 >>

RECURSIVE EncryptChunks(_, _, _, _)
EncryptChunks(padded_cmd, padded_len, i, K) ==
    IF i >= padded_len THEN <<>>
    ELSE BlockBytes(padded_cmd, i, K) \o EncryptChunks(padded_cmd, padded_len, i + 4, K)

\* mutant: the plain-text branch taken whatever encryption_enabled says
sendMTHCommand_plain(cmd) ==
    IF ~CanSend THEN <<>> ELSE cmd \o CRLF

\* mutant: a string refused earlier is kept and written ahead of the next one
sendMTHCommand_flush(cmd) ==
    IF ~CanSend THEN <<>>
    ELSE (IF ~conn_at_dispatch /\ sent # <<>>
          THEN EncryptChunks(PaddedCmd(sent[1]), PaddedLen(Len(sent[1])), 0, round_keys)
          ELSE <<>>)
         \o (IF encryption_enabled
             THEN EncryptChunks(PaddedCmd(cmd), PaddedLen(Len(cmd)), 0, round_keys)
             ELSE cmd \o CRLF)

\* the bytes sendMTHCommand writes to wtiu_client for cmd
sendMTHCommand(cmd) ==
    IF ~CanSend THEN <<>>
    ELSE IF encryption_enabled THEN EncryptChunks(PaddedCmd(cmd), PaddedLen(Len(cmd)), 0, round_keys)
    ELSE cmd \o CRLF

-----------------------------------------------------------------------------
(* executeMTHCommand *)

\* What a case of the switch leaves: the strings handed to sendMTHCommand, in
\* order, the whistle state and the local command_sent.
One(s, pw, pitch) == [strs |-> <<s>>, pw |-> pw, pitch |-> pitch, command_sent |-> TRUE]
None(ok, pw, pitch) == [strs |-> <<>>, pw |-> pw, pitch |-> pitch, command_sent |-> ok]

\* mutant: the engine number sent with the +1 offset of the earlier mapping
CaseEngineSelect_offset(cmd, pw, pitch) ==
    One(Snprintf(32, PFX_y \o Dec(cmd.engine_number + 1)), pw, pitch)

CaseEngineSelect(cmd, pw, pitch) ==
    One(Snprintf(32, PFX_y \o Dec(cmd.engine_number)), pw, pitch)

\* mutant: the speed string built from the wrong field
CaseSpeed_engine(cmd, pw, pitch) ==
    One(Snprintf(32, PFX_s \o Dec(cmd.engine_number)), pw, pitch)

\* mutant: a speed record also switching protowhistle mode off
CaseSpeed_modeoff(cmd, pw, pitch) ==
    One(Snprintf(32, PFX_s \o Dec(cmd.value)), FALSE, pitch)

\* mutant: the speed limited to the 31 steps of the TMCC throttle
CaseSpeed_clamped(cmd, pw, pitch) ==
    One(Snprintf(32, PFX_s \o Dec(Min(cmd.value, 31))), pw, pitch)

CaseSpeed(cmd, pw, pitch) ==
    One(Snprintf(32, PFX_s \o Dec(cmd.value)), pw, pitch)

CaseDirection(cmd, pw, pitch) ==
    One(IF cmd.bool_value THEN STR_d1 ELSE STR_d0, pw, pitch)

\* mutant: bell off sent as the literal of whistle off
CaseBell_whistle(cmd, pw, pitch) ==
    One(IF cmd.bool_value THEN STR_w4 ELSE STR_bFFFD, pw, pitch)

CaseBell(cmd, pw, pitch) ==
    One(IF cmd.bool_value THEN STR_w4 ELSE STR_bFFFB, pw, pitch)

\* mutant: the regular whistle not gated on protowhistle_enabled
CaseWhistle_ungated(cmd, pw, pitch) ==
    One(IF cmd.bool_value THEN STR_w2 ELSE STR_bFFFD, pw, pitch)

CaseWhistle(cmd, pw, pitch) ==
    IF ~pw THEN One(IF cmd.bool_value THEN STR_w2 ELSE STR_bFFFD, pw, pitch)
    ELSE None(FALSE, pw, pitch)

\* mutant: the quill sent whether or not protowhistle mode is on
CaseProtoWhistle_quill(cmd, pw, pitch) ==
    IF cmd.value = 0 THEN
        One(IF cmd.bool_value THEN STR_ab20 ELSE STR_ab21, cmd.bool_value, pitch)
    ELSE IF cmd.value = 1 THEN
        One(IF cmd.bool_value THEN STR_w2 ELSE STR_bFFFD, pw, pitch)
    ELSE IF cmd.value = 2 THEN
        One(IF cmd.bool_value THEN STR_ab20 ELSE STR_ab21, cmd.bool_value, pitch)
    ELSE IF cmd.value >= 10 /\ cmd.value <= 13 THEN
        One(Snprintf(10, PFX_ab \o Dec((cmd.value - 10) + 26)), pw, cmd.value - 10)
    ELSE None(FALSE, pw, pitch)

\* mutant: the pitch range one value too wide
CaseProtoWhistle_range(cmd, pw, pitch) ==
    IF cmd.value = 0 THEN
        One(IF cmd.bool_value THEN STR_ab20 ELSE STR_ab21, cmd.bool_value, pitch)
    ELSE IF cmd.value = 1 THEN
        IF pw THEN One(IF cmd.bool_value THEN STR_w2 ELSE STR_bFFFD, pw, pitch)
        ELSE None(FALSE, pw, pitch)
    ELSE IF cmd.value = 2 THEN
        One(IF cmd.bool_value THEN STR_ab20 ELSE STR_ab21, cmd.bool_value, pitch)
    ELSE IF cmd.value >= 10 /\ cmd.value <= 14 THEN
        One(Snprintf(10, PFX_ab \o Dec((cmd.value - 10) + 26)), pw, cmd.value - 10)
    ELSE None(FALSE, pw, pitch)

\* mutant: value 2 inverting the mode instead of setting it from the flag
CaseProtoWhistle_toggle(cmd, pw, pitch) ==
    IF cmd.value = 0 THEN
        One(IF cmd.bool_value THEN STR_ab20 ELSE STR_ab21, cmd.bool_value, pitch)
    ELSE IF cmd.value = 1 THEN
        IF pw THEN One(IF cmd.bool_value THEN STR_w2 ELSE STR_bFFFD, pw, pitch)
        ELSE None(FALSE, pw, pitch)
    ELSE IF cmd.value = 2 THEN
        One(IF ~pw THEN STR_ab20 ELSE STR_ab21, ~pw, pitch)
    ELSE IF cmd.value >= 10 /\ cmd.value <= 13 THEN
        One(Snprintf(10, PFX_ab \o Dec((cmd.value - 10) + 26)), pw, cmd.value - 10)
    ELSE None(FALSE, pw, pitch)

CaseProtoWhistle(cmd, pw, pitch) ==
    IF cmd.value = 0 THEN
        One(IF cmd.bool_value THEN STR_ab20 ELSE STR_ab21, cmd.bool_value, pitch)
    ELSE IF cmd.value = 1 THEN
        IF pw THEN One(IF cmd.bool_value THEN STR_w2 ELSE STR_bFFFD, pw, pitch)
        ELSE None(FALSE, pw, pitch)
    ELSE IF cmd.value = 2 THEN
        One(IF cmd.bool_value THEN STR_ab20 ELSE STR_ab21, cmd.bool_value, pitch)
    ELSE IF cmd.value >= 10 /\ cmd.value <= 13 THEN
        One(Snprintf(10, PFX_ab \o Dec((cmd.value - 10) + 26)), pw, cmd.value - 10)
    ELSE None(FALSE, pw, pitch)

CaseWLED(cmd, pw, pitch) ==
    IF cmd.bool_value THEN One(Snprintf(32, PFX_w \o Dec(cmd.engine_number)), pw, pitch)
    ELSE None(TRUE, pw, pitch)

CaseStartup(cmd, pw, pitch) == One(STR_u4, pw, pitch)

CaseShutdown(cmd, pw, pitch) == One(STR_u5, pw, pitch)

\* mutant: the default label falling through into the case above it
CaseDefault_fallthrough(cmd, pw, pitch) == One(STR_u5, pw, pitch)

CaseDefault(cmd, pw, pitch) == None(FALSE, pw, pitch)

\* the case labels of the switch
KnownTypes ==
    {CMD_ENGINE_SELECT, CMD_SPEED, CMD_DIRECTION, CMD_BELL, CMD_WHISTLE,
     CMD_PROTOWHISTLE, CMD_WLED, CMD_STARTUP, CMD_SHUTDOWN}

\* switch (cmd->command_type)
Translate(cmd, pw, pitch) ==
    LET t == cmd.command_type
    IN  IF t = CMD_ENGINE_SELECT THEN CaseEngineSelect(cmd, pw, pitch)
        ELSE IF t = CMD_SPEED THEN CaseSpeed(cmd, pw, pitch)
        ELSE IF t = CMD_DIRECTION THEN CaseDirection(cmd, pw, pitch)
        ELSE IF t = CMD_BELL THEN CaseBell(cmd, pw, pitch)
        ELSE IF t = CMD_WHISTLE THEN CaseWhistle(cmd, pw, pitch)
        ELSE IF t = CMD_PROTOWHISTLE THEN CaseProtoWhistle(cmd, pw, pitch)
        ELSE IF t = CMD_WLED THEN CaseWLED(cmd, pw, pitch)
        ELSE IF t = CMD_STARTUP THEN CaseStartup(cmd, pw, pitch)
        ELSE IF t = CMD_SHUTDOWN THEN CaseShutdown(cmd, pw, pitch)
        ELSE CaseDefault(cmd, pw, pitch)

\* mutant: the request packet echoed back, its value field left as received
Response_echo(cmd, command_sent) ==
    [command_type |-> cmd.command_type,
     engine_number |-> cmd.engine_number,
     value |-> cmd.value,
     bool_value |-> cmd.bool_value]

\* the response packet written back to the MPU
Response(cmd, command_sent) ==
    [command_type |-> cmd.command_type,
     engine_number |-> cmd.engine_number,
     value |-> IF command_sent THEN 1 ELSE 0,
     bool_value |-> cmd.bool_value]

RECURSIVE WriteAll(_)
WriteAll(strs) ==
    IF strs = <<>> THEN <<>> ELSE sendMTHCommand(Head(strs)) \o WriteAll(Tail(strs))

\* What the client does with the writes of one dispatch is the network's
\* choice: they go through, or one of them fails, and after a failed write the
\* client may or may not report the connection closed.  sendMTHCommand looks
\* at neither the result of write nor at connected() after it.
WriteOutcomes(writes) ==
    IF writes
    THEN {[failed |-> FALSE, closed |-> FALSE], [failed |-> TRUE, closed |-> FALSE],
          [failed |-> TRUE, closed |-> TRUE]}
    ELSE {[failed |-> FALSE, closed |-> FALSE]}

\* mutant: the whistle state updated only when the strings could be sent
executeMTHCommand_gated(cmd) ==
    LET r == Translate(cmd, protowhistle_enabled, protowhistle_pitch)
    IN  /\ protowhistle_enabled' = IF CanSend THEN r.pw ELSE protowhistle_enabled
        /\ protowhistle_pitch' = IF CanSend THEN r.pitch ELSE protowhistle_pitch
        /\ last_cmd' = cmd
        /\ sent' = r.strs
        /\ conn_at_dispatch' = CanSend
        /\ pw_at_dispatch' = protowhistle_enabled
        /\ wire' = WriteAll(r.strs)
        /\ acks' = <<Response(cmd, r.command_sent)>>
        /\ \E o \in WriteOutcomes(CanSend /\ r.strs # <<>>) :
              /\ write_failed' = o.failed
              /\ accepted' = [i \in 1..Len(r.strs) |-> CanSend /\ ~o.failed]
              /\ link_up' = (link_up /\ ~o.closed)

executeMTHCommand(cmd) ==
    LET r == Translate(cmd, protowhistle_enabled, protowhistle_pitch)
    IN  /\ protowhistle_enabled' = r.pw
        /\ protowhistle_pitch' = r.pitch
        /\ last_cmd' = cmd
        /\ sent' = r.strs
        /\ conn_at_dispatch' = CanSend
        /\ pw_at_dispatch' = protowhistle_enabled
        /\ wire' = WriteAll(r.strs)
        /\ acks' = <<Response(cmd, r.command_sent)>>
        /\ \E o \in WriteOutcomes(CanSend /\ r.strs # <<>>) :
              /\ write_failed' = o.failed
              /\ accepted' = [i \in 1..Len(r.strs) |-> CanSend /\ ~o.failed]
              /\ link_up' = (link_up /\ ~o.closed)

-----------------------------------------------------------------------------
(* Bounds of the model and the inputs explored *)

MaxIter == 4              \* loop() iterations explored
MaxAvail == 6             \* bytes the MPU may have queued in the receive buffer
NumCandidates == 2        \* services an mDNS query may return

\* sizeof(CommandPacket): uint8, uint8, uint16, bool, aligned to the uint16
PACKET_SIZE == 6
\* setup(): five blinks of 200 ms on, 200 ms off
LED_TEST_MS == 2000
\* initializeWiFi(): up to 20 polls, 500 ms apart
WIFI_POLLS == 20
WIFI_POLL_MS == 500

Candidates == 1..NumCandidates
CandPort(c) == DEFAULT_PORT + c - 1

\* what MDNS.queryService may answer: candidates in some order, none repeated
CandidateLists ==
    {<<>>} \cup {<<c>> : c \in Candidates}
           \cup {<<c, d>> : <<c, d>> \in {x \in Candidates \X Candidates : x[1] # x[2]}}

\* time one loop() iteration takes: delay(10), plus what its blocking calls took
DelaySteps == {10, 4990}
\* bytes arriving from the MPU between two steps
ArrivalSizes == {3, PACKET_SIZE}

Packet(t, e, v, b) ==
    [command_type |-> t, engine_number |-> e, value |-> v, bool_value |-> b]

\* records fed through the whole loop
LoopRecords ==
    { Packet(CMD_SPEED, 1, 15, FALSE),
      Packet(CMD_PROTOWHISTLE, 1, 0, TRUE),
      Packet(255, 1, 13, TRUE) }

\* records fed to the dispatcher alone
CommandTypes == 0..10 \cup {255}
Records ==
    {Packet(t, 1, v, b) : t \in CommandTypes, v \in {0, 15}, b \in BOOLEAN}
    \cup {Packet(t, e, 0, b) : t \in {CMD_ENGINE_SELECT, CMD_WLED, CMD_WHISTLE},
                               e \in {11, 99}, b \in BOOLEAN}
    \cup {Packet(CMD_PROTOWHISTLE, 1, v, b) : v \in {1, 2, 3, 10, 13}, b \in BOOLEAN}
    \cup {Packet(CMD_SPEED, 1, v, FALSE) : v \in {5, 31, 120}}

NoCmd == [command_type |-> -1]
NoAnswer == <<<<>>, {}>>
ZeroBlock == [j \in 0..1 |-> 0]
DefaultKey == [i \in 0..3 |-> IF i = 0 THEN 256 ELSE IF i = 1 THEN 770
                              ELSE IF i = 2 THEN 1284 ELSE 1798]

-----------------------------------------------------------------------------
(* Connection and discovery *)

\* the for loop of discoverWTIU with connectToWTIU inlined; accepts is the set
\* of candidates whose wtiu_client.connect succeeds
RECURSIVE TryCandidates(_, _, _, _, _)
TryCandidates(cands, i, accepts, wifi, st) ==
    IF i > Len(cands) THEN [st EXCEPT !.ok = FALSE]
    ELSE LET c == cands[i]
             at == [st EXCEPT !.host = c, !.port = CandPort(c)]
         IN  IF ~wifi THEN TryCandidates(cands, i + 1, accepts, wifi, at)
             ELSE IF c \in accepts
                  THEN [at EXCEPT !.connected = TRUE, !.link = TRUE, !.ok = TRUE]
                  ELSE TryCandidates(cands, i + 1, accepts, wifi,
                                     [at EXCEPT !.connected = FALSE, !.link = FALSE])

\* mutant: only the first service of the answer is tried
discoverWTIU_first(cands, accepts, conn, wifi) ==
    TryCandidates(SubSeq(cands, 1, Min(1, Len(cands))), 1, accepts, wifi,
                  [ok |-> FALSE, host |-> wtiu_host, port |-> wtiu_port,
                   connected |-> conn, link |-> link_up])

\* mutant: the services of the answer tried from the last to the first
discoverWTIU_reversed(cands, accepts, conn, wifi) ==
    TryCandidates([i \in 1..Len(cands) |-> cands[Len(cands) + 1 - i]], 1, accepts, wifi,
                  [ok |-> FALSE, host |-> wtiu_host, port |-> wtiu_port,
                   connected |-> conn, link |-> link_up])

\* mutant: the state set to Connected as soon as a service is found, connected or not
discoverWTIU_found(cands, accepts, conn, wifi) ==
    [TryCandidates(cands, 1, accepts, wifi,
                   [ok |-> FALSE, host |-> wtiu_host, port |-> wtiu_port,
                    connected |-> conn, link |-> link_up])
        EXCEPT !.connected = (cands # <<>>)]

\* discoverWTIU started with wtiu_connected = conn and WiFi status wifi
discoverWTIU(cands, accepts, conn, wifi) ==
    TryCandidates(cands, 1, accepts, wifi,
                  [ok |-> FALSE, host |-> wtiu_host, port |-> wtiu_port,
                   connected |-> conn, link |-> link_up])

LogAttempt(by, t) ==
    LET e == [t |-> t, by |-> by]
    IN  attempt_log' = IF Len(attempt_log) < 2 THEN Append(attempt_log, e)
                       ELSE <<attempt_log[2], e>>

\* mutant: the gate compares the clock itself, not the time since the last attempt
RetryDue_clock(current_time, last) == current_time >= CONNECTION_RETRY_INTERVAL

\* An unsigned long is 32 bits wide; it is kept as two 16-bit halves, hi and lo.
ULong(n) == [hi |-> n \div WordMod, lo |-> n % WordMod]

\* millis() after d more milliseconds: the counter wraps at 2^32
ULongAdd(a, d) ==
    LET lo == a.lo + d.lo
        carry == IF lo >= WordMod THEN 1 ELSE 0
    IN  [hi |-> (a.hi + d.hi + carry) % WordMod, lo |-> lo % WordMod]

\* mutant: a difference that would be negative taken as 0
ULongSub_nowrap(a, b) ==
    IF a.hi < b.hi \/ (a.hi = b.hi /\ a.lo < b.lo) THEN [hi |-> 0, lo |-> 0]
    ELSE LET borrow == IF a.lo < b.lo THEN 1 ELSE 0
         IN  [hi |-> a.hi - b.hi - borrow, lo |-> (a.lo - b.lo + WordMod) % WordMod]

\* a - b on unsigned long: modulo 2^32
ULongSub(a, b) ==
    LET borrow == IF a.lo < b.lo THEN 1 ELSE 0
    IN  [hi |-> (a.hi - b.hi - borrow + (2 * WordMod)) % WordMod,
         lo |-> (a.lo - b.lo + WordMod) % WordMod]

\* current_time - last_connection_attempt >= CONNECTION_RETRY_INTERVAL
GateDue(current_time, last) ==
    LET d == ULongSub(current_time, last)
    IN  d.hi > 0 \/ d.lo >= CONNECTION_RETRY_INTERVAL

\* the gate on the clock of the loop, which stays below 2^31
RetryDue(current_time, last) == GateDue(ULong(current_time), ULong(last))

recordVars == <<protowhistle_enabled, protowhistle_pitch, last_cmd, sent, accepted,
                conn_at_dispatch, pw_at_dispatch, wire, acks>>
dispatchVars == <<recordVars, write_failed>>
cipherVars == <<key, round_keys, encryption_enabled, pt, ct>>
serialVars == <<serial_avail, bytes_received, rx_bytes, n_dispatched>>
\* what a dispatch leaves alone of the connection (connected() is the client's)
managerVars == <<wtiu_connected, wtiu_host, wtiu_port, last_connection_attempt, attempt_log>>
connVars == <<wtiu_connected, link_up, wtiu_host, wtiu_port, last_connection_attempt, attempt_log>>
\* what only the harnesses of discovery and of the whistle write
clockVars == <<clock_last, clock_elapsed, clock_due>>
observerVars == <<mdns_answer, whistle_sounding, clockVars>>

-----------------------------------------------------------------------------
(* The program *)

Init ==
    /\ pc = "setup"
    /\ now = 0
    /\ iter = 0
    /\ wifi_up = FALSE
    /\ link_up = FALSE
    /\ wtiu_connected = FALSE
    /\ wtiu_host = 0
    /\ wtiu_port = DEFAULT_PORT
    /\ last_connection_attempt = 0
    /\ protowhistle_enabled = FALSE
    /\ protowhistle_pitch = 0
    /\ key = DefaultKey
    /\ round_keys = [i \in 0..(SPECK_ROUNDS - 1) |-> 0]
    /\ encryption_enabled = TRUE
    /\ serial_avail = 0
    /\ bytes_received = 0
    /\ rx_bytes = 0
    /\ n_dispatched = 0
    /\ last_cmd = NoCmd
    /\ sent = <<>>
    /\ accepted = <<>>
    /\ conn_at_dispatch = FALSE
    /\ pw_at_dispatch = FALSE
    /\ wire = <<>>
    /\ write_failed = FALSE
    /\ acks = <<>>
    /\ attempt_log = <<>>
    /\ pt = ZeroBlock
    /\ ct = ZeroBlock
    /\ mdns_answer = NoAnswer
    /\ whistle_sounding = FALSE
    /\ clock_last = ULong(0)
    /\ clock_elapsed = ULong(0)
    /\ clock_due = FALSE

\* what the network may answer to one discovery: the services found, and
\* those of them that accept a connection
Answers ==
    {a \in CandidateLists \X (SUBSET Candidates) :
        \A c \in a[2] : \E i \in 1..Len(a[1]) : a[1][i] = c}

\* setup(): LED test, initializeWiFi, speck_expand, discoverWTIU answered by a
SetupWith(a) ==
    /\ pc = "setup"
    /\ \E w \in BOOLEAN :
          LET d == discoverWTIU(a[1], a[2], wtiu_connected, w)
              boot == LED_TEST_MS + (IF w THEN 0 ELSE WIFI_POLLS * WIFI_POLL_MS)
          IN  /\ wifi_up' = w
              /\ now' = boot
              /\ round_keys' = speck_expand(key)
              /\ wtiu_connected' = d.connected
              /\ link_up' = d.link
              /\ wtiu_host' = d.host
              /\ wtiu_port' = d.port
              /\ LogAttempt("setup", boot)
    /\ pc' = "loop_recv"
    /\ UNCHANGED <<iter, last_connection_attempt, key, encryption_enabled, pt, ct>>
    /\ UNCHANGED dispatchVars
    /\ UNCHANGED serialVars

Setup ==
    /\ \E a \in Answers : SetupWith(a)
    /\ UNCHANGED observerVars

\* mutant: the connection maintained before the serial port is read
NextPc_maintain_first(p) ==
    IF p = "loop_recv" THEN "loop_delay"
    ELSE IF p = "loop_maintain" THEN "loop_recv"
    ELSE "loop_maintain"

\* mutant: the connection maintained over and over, loop() never completing a pass
NextPc_retry(p) ==
    IF p = "loop_recv" THEN "loop_maintain"
    ELSE IF p = "loop_maintain" THEN "loop_maintain"
    ELSE "loop_recv"

\* the order of the calls in loop()
NextPc(p) ==
    IF p = "loop_recv" THEN "loop_maintain"
    ELSE IF p = "loop_maintain" THEN "loop_delay"
    ELSE "loop_recv"

\* mutant: the read loop not bounded by the room left in the buffer
ReadCount_greedy(avail, received) == avail

\* bytes the while loop of receiveCommandFromMPU reads
ReadCount(avail, received) == Min(avail, PACKET_SIZE - received)

\* receiveCommandFromMPU is called and its buffer fills up
RecordComplete ==
    /\ serial_avail > 0
    /\ bytes_received + ReadCount(serial_avail, bytes_received) = PACKET_SIZE

\* loop(): if (Serial.available()) receiveCommandFromMPU();
ReceiveStep ==
    /\ pc = "loop_recv"
    /\ pc' = NextPc(pc)
    /\ IF serial_avail > 0
       THEN LET n == ReadCount(serial_avail, bytes_received)
            IN  /\ serial_avail' = serial_avail - n
                /\ IF bytes_received + n = PACKET_SIZE
                   THEN /\ \E cmd \in LoopRecords : executeMTHCommand(cmd)
                        /\ bytes_received' = 0
                   ELSE /\ bytes_received' = bytes_received + n
                        /\ write_failed' = FALSE
                        /\ UNCHANGED <<recordVars, link_up>>
       ELSE /\ write_failed' = FALSE
            /\ UNCHANGED <<serial_avail, bytes_received, recordVars, link_up>>
    /\ UNCHANGED <<now, iter, wifi_up>>
    /\ UNCHANGED managerVars
    /\ UNCHANGED cipherVars
    /\ UNCHANGED observerVars

LoopReceive ==
    /\ ReceiveStep
    /\ UNCHANGED <<rx_bytes, n_dispatched>>

\* mutant: a reconnect started whatever the state of the connection
ConnectionLost_always(conn, link) == TRUE

\* maintainWTIUConnection(): !wtiu_connected || !wtiu_client.connected()
ConnectionLost(conn, link) == ~conn \/ ~link

\* loop(): maintainWTIUConnection(), the network answering from answers
Maintain(answers) ==
    /\ pc = "loop_maintain"
    /\ pc' = NextPc(pc)
    /\ IF ConnectionLost(wtiu_connected, link_up)
       THEN IF RetryDue(now, last_connection_attempt)
            THEN \E a \in answers :
                    LET d == discoverWTIU(a[1], a[2], FALSE, wifi_up)
                    IN  /\ last_connection_attempt' = now
                        /\ wtiu_connected' = d.connected
                        /\ link_up' = d.link
                        /\ wtiu_host' = d.host
                        /\ wtiu_port' = d.port
                        /\ LogAttempt("maintain", now)
            ELSE /\ wtiu_connected' = FALSE
                 /\ UNCHANGED <<link_up, wtiu_host, wtiu_port, last_connection_attempt,
                                attempt_log>>
       ELSE UNCHANGED connVars
    /\ UNCHANGED <<now, iter, wifi_up>>
    /\ UNCHANGED dispatchVars
    /\ UNCHANGED serialVars
    /\ UNCHANGED cipherVars

LoopMaintain ==
    /\ Maintain(Answers)
    /\ UNCHANGED observerVars

\* loop(): delay(10);
LoopDelay ==
    /\ pc = "loop_delay"
    /\ iter < MaxIter
    /\ \E dt \in DelaySteps : now' = now + dt
    /\ iter' = iter + 1
    /\ pc' = NextPc(pc)
    /\ UNCHANGED wifi_up
    /\ UNCHANGED connVars
    /\ UNCHANGED dispatchVars
    /\ UNCHANGED serialVars
    /\ UNCHANGED cipherVars
    /\ UNCHANGED observerVars

\* the MPU writes bytes to the serial port, some number of them in sizes
Arrive(sizes) ==
    /\ pc # "setup"
    /\ \E n \in sizes :
          /\ serial_avail + n <= MaxAvail
          /\ serial_avail' = serial_avail + n
    /\ UNCHANGED <<pc, now, iter, wifi_up, bytes_received>>
    /\ UNCHANGED connVars
    /\ UNCHANGED dispatchVars
    /\ UNCHANGED cipherVars
    /\ UNCHANGED observerVars

SerialArrive ==
    /\ Arrive(ArrivalSizes)
    /\ UNCHANGED <<rx_bytes, n_dispatched>>

\* the WTIU or the network closes the TCP connection
LinkDrop ==
    /\ pc # "setup"
    /\ link_up
    /\ link_up' = FALSE
    /\ UNCHANGED <<pc, now, iter, wifi_up, wtiu_connected, wtiu_host, wtiu_port,
                   last_connection_attempt, attempt_log>>
    /\ UNCHANGED dispatchVars
    /\ UNCHANGED serialVars
    /\ UNCHANGED cipherVars
    /\ UNCHANGED observerVars

\* the WiFi association is lost (taking the TCP connection with it) or comes back
WifiChange ==
    /\ pc # "setup"
    /\ wifi_up' = ~wifi_up
    /\ link_up' = (link_up /\ wifi_up')
    /\ UNCHANGED <<pc, now, iter, wtiu_connected, wtiu_host, wtiu_port,
                   last_connection_attempt, attempt_log>>
    /\ UNCHANGED dispatchVars
    /\ UNCHANGED serialVars
    /\ UNCHANGED cipherVars
    /\ UNCHANGED observerVars

Next ==
    \/ Setup
    \/ LoopReceive
    \/ LoopMaintain
    \/ LoopDelay
    \/ SerialArrive
    \/ LinkDrop
    \/ WifiChange

Spec == Init /\ [][Next]_vars

-----------------------------------------------------------------------------
(* The dispatcher driven directly: executeMTHCommand on any record *)

\* executeMTHCommand called on one of records
ExecuteOn(records) ==
    /\ pc = "loop_recv"
    /\ \E cmd \in records : executeMTHCommand(cmd)
    /\ UNCHANGED <<pc, now, iter, wifi_up>>
    /\ UNCHANGED managerVars
    /\ UNCHANGED serialVars
    /\ UNCHANGED cipherVars

Execute ==
    /\ ExecuteOn(Records)
    /\ UNCHANGED observerVars

DispatchNext ==
    \/ Setup
    \/ Execute
    \/ LinkDrop

SpecDispatch == Init /\ [][DispatchNext]_vars

-----------------------------------------------------------------------------
(* The loop running for ever with a WTIU in reach: every answer to a         *)
(* discovery of maintainWTIUConnection holds a service that accepts a        *)
(* connection.  A delay step stands for a stretch of passes lasting the      *)
(* longest of DelaySteps, so that time advances by at least that per step.   *)

GoodAnswers == {a \in Answers : \E i \in 1..Len(a[1]) : a[1][i] \in a[2]}

LiveMaintain ==
    /\ Maintain(GoodAnswers)
    /\ UNCHANGED observerVars

LiveDelay ==
    /\ LoopDelay
    /\ \A dt \in DelaySteps : now' - now >= dt

LiveNext ==
    \/ Setup
    \/ LoopReceive
    \/ LiveMaintain
    \/ LiveDelay
    \/ SerialArrive
    \/ LinkDrop
    \/ WifiChange

\* setup() and receiveCommandFromMPU() return
SetupReturns == pc = "setup" /\ pc' = "loop_recv"
ReceiveReturns == pc = "loop_recv" /\ pc' = NextPc(pc)

\* the single thread never stops: every call returns and loop() is called again
SpecLive ==
    /\ Init
    /\ [][LiveNext]_vars
    /\ WF_pc(SetupReturns)
    /\ WF_pc(ReceiveReturns)
    /\ WF_vars(LiveMaintain)
    /\ WF_vars(LiveDelay)

-----------------------------------------------------------------------------
(* The intake observed: the loop fed any number of bytes at a time, with the  *)
(* bytes the MPU has written and the calls of executeMTHCommand counted.      *)

IntakeSizes == 1..MaxAvail

IntakeArrive ==
    /\ Arrive(IntakeSizes)
    /\ rx_bytes' = rx_bytes + (serial_avail' - serial_avail)
    /\ UNCHANGED n_dispatched

IntakeReceive ==
    /\ ReceiveStep
    /\ n_dispatched' = IF RecordComplete THEN n_dispatched + 1 ELSE n_dispatched
    /\ UNCHANGED rx_bytes

IntakeNext ==
    \/ Setup
    \/ IntakeArrive
    \/ IntakeReceive
    \/ LiveMaintain
    \/ LiveDelay

SpecIntake == Init /\ [][IntakeNext]_vars

-----------------------------------------------------------------------------
(* The loop running for ever against any network: the WTIU may be absent,    *)
(* refuse every connection or drop one it accepted, the WiFi may come and go, *)
(* and the records may be of an unknown type.  Bytes and calls of             *)
(* executeMTHCommand are counted as in the intake.                            *)

AdverseArrive ==
    /\ Arrive(ArrivalSizes)
    /\ rx_bytes' = rx_bytes + (serial_avail' - serial_avail)
    /\ UNCHANGED n_dispatched

AdverseNext ==
    \/ Setup
    \/ AdverseArrive
    \/ IntakeReceive
    \/ LoopMaintain
    \/ LiveDelay
    \/ LinkDrop
    \/ WifiChange

\* the single thread never stops: every call returns and loop() is called again
SpecAdverse ==
    /\ Init
    /\ [][AdverseNext]_vars
    /\ WF_pc(SetupReturns)
    /\ WF_pc(ReceiveReturns)
    /\ WF_vars(LoopMaintain)
    /\ WF_vars(LiveDelay)

-----------------------------------------------------------------------------
(* The connection manager observed: setup() and the loop without records,    *)
(* with the answer of the network to the latest discovery kept.               *)

DiscoverSetup ==
    /\ \E a \in Answers : SetupWith(a) /\ mdns_answer' = a
    /\ UNCHANGED <<whistle_sounding, clockVars>>

DiscoverMaintain ==
    /\ \E a \in Answers :
          /\ Maintain({a})
          /\ mdns_answer' = IF attempt_log' # attempt_log THEN a ELSE mdns_answer
    /\ UNCHANGED <<whistle_sounding, clockVars>>

DiscoverNext ==
    \/ DiscoverSetup
    \/ LoopReceive
    \/ DiscoverMaintain
    \/ LoopDelay
    \/ LinkDrop
    \/ WifiChange

SpecDiscover == Init /\ [][DiscoverNext]_vars

-----------------------------------------------------------------------------
(* The whistle observed: the dispatcher driven with whistle and protowhistle  *)
(* records, and the state of the engine's whistle kept: it sounds from a 'w2' *)
(* of a whistle record that was written until the next 'bFFFD' of one.        *)

WhistleValues == {0, 1, 2, 3, 9, 10, 11, 12, 13, 14}
WhistleRecords ==
    {Packet(CMD_WHISTLE, 1, 0, b) : b \in BOOLEAN}
    \cup {Packet(CMD_PROTOWHISTLE, 1, v, b) : v \in WhistleValues, b \in BOOLEAN}

WhistleExecute ==
    /\ ExecuteOn(WhistleRecords)
    /\ whistle_sounding' =
          IF last_cmd'.command_type = CMD_WHISTLE /\ sent' = <<STR_w2>>
             /\ accepted' = <<TRUE>>
          THEN TRUE
          ELSE IF last_cmd'.command_type = CMD_WHISTLE /\ sent' = <<STR_bFFFD>>
               THEN FALSE
               ELSE whistle_sounding
    /\ UNCHANGED <<mdns_answer, clockVars>>

WhistleNext ==
    \/ Setup
    \/ WhistleExecute
    \/ LinkDrop

SpecWhistle == Init /\ [][WhistleNext]_vars

-----------------------------------------------------------------------------
(* The flag-only commands: the dispatcher driven with direction, bell,       *)
(* startup and shutdown records of any engine and value, in and out of        *)
(* protowhistle mode.                                                         *)

FlagTypes == {CMD_DIRECTION, CMD_BELL, CMD_STARTUP, CMD_SHUTDOWN}
FlagRecords ==
    {Packet(t, e, v, b) : t \in FlagTypes, e \in {1, 255}, v \in {0, 65535}, b \in BOOLEAN}
    \cup {Packet(CMD_PROTOWHISTLE, 1, 0, b) : b \in BOOLEAN}

FlagExecute ==
    /\ ExecuteOn(FlagRecords)
    /\ UNCHANGED observerVars

FlagNext ==
    \/ Setup
    \/ FlagExecute
    \/ LinkDrop

SpecFlags == Init /\ [][FlagNext]_vars

-----------------------------------------------------------------------------
(* The numbers passed through: the dispatcher driven with engine-select and  *)
(* speed records in and out of the ranges of the protocol, and with the       *)
(* records of the longest strings.                                            *)

RangeRecords ==
    {Packet(CMD_ENGINE_SELECT, e, 0, FALSE) : e \in {0, 1, 99, 100, 255}}
    \cup {Packet(CMD_SPEED, 1, v, FALSE) : v \in {0, 31, 32, 120, 9999, 65535}}
    \cup { Packet(CMD_WLED, 255, 0, TRUE), Packet(CMD_BELL, 1, 0, FALSE),
           Packet(CMD_WHISTLE, 1, 0, FALSE), Packet(CMD_PROTOWHISTLE, 1, 13, FALSE) }

RangeExecute ==
    /\ ExecuteOn(RangeRecords)
    /\ UNCHANGED observerVars

RangeNext ==
    \/ Setup
    \/ RangeExecute
    \/ LinkDrop

SpecRange == Init /\ [][RangeNext]_vars

-----------------------------------------------------------------------------
(* The cipher driven directly: speck_expand, then speck_encrypt *)

TestKeys ==
    { DefaultKey,
      [i \in 0..3 |-> IF i = 0 THEN 256 ELSE IF i = 1 THEN 2312
                      ELSE IF i = 2 THEN 4368 ELSE 6424],
      [i \in 0..3 |-> 0] }
\* the built-in key with one of its 64 bits flipped
FlippedKeys ==
    {[DefaultKey EXCEPT ![w] = BitXor(DefaultKey[w], 2 ^ b)] :
        w \in 0..(SPECK_KEY_LEN - 1), b \in 0..(WORD_BITS - 1)}
TestWords == {0, 1, 13568, 25972, 26956, 29489, 32768, 65535}
TestBlocks == {[j \in 0..1 |-> IF j = 0 THEN a ELSE b] : a \in TestWords, b \in TestWords}

CipherInit ==
    /\ pc = "cipher_expand"
    /\ \/ key \in TestKeys /\ pt \in TestBlocks
       \/ key \in FlippedKeys /\ pt = ZeroBlock
    /\ ct = ZeroBlock
    /\ now = 0
    /\ iter = 0
    /\ wifi_up = FALSE
    /\ link_up = FALSE
    /\ wtiu_connected = FALSE
    /\ wtiu_host = 0
    /\ wtiu_port = DEFAULT_PORT
    /\ last_connection_attempt = 0
    /\ protowhistle_enabled = FALSE
    /\ protowhistle_pitch = 0
    /\ round_keys = [i \in 0..(SPECK_ROUNDS - 1) |-> 0]
    /\ encryption_enabled = TRUE
    /\ serial_avail = 0
    /\ bytes_received = 0
    /\ rx_bytes = 0
    /\ n_dispatched = 0
    /\ last_cmd = NoCmd
    /\ sent = <<>>
    /\ accepted = <<>>
    /\ conn_at_dispatch = FALSE
    /\ pw_at_dispatch = FALSE
    /\ wire = <<>>
    /\ write_failed = FALSE
    /\ acks = <<>>
    /\ attempt_log = <<>>
    /\ mdns_answer = NoAnswer
    /\ whistle_sounding = FALSE
    /\ clock_last = ULong(0)
    /\ clock_elapsed = ULong(0)
    /\ clock_due = FALSE

CipherExpand ==
    /\ pc = "cipher_expand"
    /\ round_keys' = speck_expand(key)
    /\ pc' = "cipher_encrypt"
    /\ UNCHANGED <<now, iter, wifi_up, key, encryption_enabled, pt, ct>>
    /\ UNCHANGED connVars
    /\ UNCHANGED dispatchVars
    /\ UNCHANGED serialVars
    /\ UNCHANGED observerVars

CipherEncrypt ==
    /\ pc = "cipher_encrypt"
    /\ ct' = speck_encrypt(pt, round_keys)
    /\ pc' = "cipher_done"
    /\ UNCHANGED <<now, iter, wifi_up, key, round_keys, encryption_enabled, pt>>
    /\ UNCHANGED connVars
    /\ UNCHANGED dispatchVars
    /\ UNCHANGED serialVars
    /\ UNCHANGED observerVars

CipherNext ==
    \/ CipherExpand
    \/ CipherEncrypt

SpecCipher == CipherInit /\ [][CipherNext]_vars

-----------------------------------------------------------------------------
(* The retry gate driven directly: last_connection_attempt anywhere in the   *)
(* 32 bits of the counter, and the gate asked after some milliseconds more.   *)

\* 2^32 - 1 in halves
ULongMax == [hi |-> WordMod - 1, lo |-> WordMod - 1]
ClockLasts ==
    {ULong(0), ULong(1), ULong(4999), ULong(5000), ULong(WordMod), ULong(2147483647),
     [hi |-> WordMod \div 2, lo |-> 0],
     ULongSub(ULongMax, ULong(5000)), ULongSub(ULongMax, ULong(4999)),
     ULongSub(ULongMax, ULong(999)), ULongSub(ULongMax, ULong(1)), ULongMax}
ClockElapsed ==
    {ULong(0), ULong(1), ULong(10), ULong(4999), ULong(5000), ULong(5001),
     ULong(WordMod - 1), ULong(WordMod), ULong(WordMod + 4999), ULong(2147483647),
     ULongSub(ULongMax, ULong(5000)), ULongMax}

ClockInit ==
    /\ pc = "clock_check"
    /\ clock_last \in ClockLasts
    /\ clock_elapsed \in ClockElapsed
    /\ clock_due = FALSE
    /\ key = DefaultKey
    /\ pt = ZeroBlock
    /\ ct = ZeroBlock
    /\ now = 0
    /\ iter = 0
    /\ wifi_up = FALSE
    /\ link_up = FALSE
    /\ wtiu_connected = FALSE
    /\ wtiu_host = 0
    /\ wtiu_port = DEFAULT_PORT
    /\ last_connection_attempt = 0
    /\ protowhistle_enabled = FALSE
    /\ protowhistle_pitch = 0
    /\ round_keys = [i \in 0..(SPECK_ROUNDS - 1) |-> 0]
    /\ encryption_enabled = TRUE
    /\ serial_avail = 0
    /\ bytes_received = 0
    /\ rx_bytes = 0
    /\ n_dispatched = 0
    /\ last_cmd = NoCmd
    /\ sent = <<>>
    /\ accepted = <<>>
    /\ conn_at_dispatch = FALSE
    /\ pw_at_dispatch = FALSE
    /\ wire = <<>>
    /\ write_failed = FALSE
    /\ acks = <<>>
    /\ attempt_log = <<>>
    /\ mdns_answer = NoAnswer
    /\ whistle_sounding = FALSE

\* maintainWTIUConnection reads millis() and evaluates the gate
ClockCheck ==
    /\ pc = "clock_check"
    /\ clock_due' = GateDue(ULongAdd(clock_last, clock_elapsed), clock_last)
    /\ pc' = "clock_done"
    /\ UNCHANGED <<now, iter, wifi_up, clock_last, clock_elapsed, mdns_answer,
                   whistle_sounding>>
    /\ UNCHANGED connVars
    /\ UNCHANGED dispatchVars
    /\ UNCHANGED serialVars
    /\ UNCHANGED cipherVars

ClockNext == ClockCheck

SpecClock == ClockInit /\ [][ClockNext]_vars

-----------------------------------------------------------------------------
(* Properties *)

Dispatched == last_cmd # NoCmd

\* C1: every record handed to executeMTHCommand is answered by exactly one
\* response packet; its command_type, engine_number and bool_value are those
\* of the record and its value is the success indicator, 0 or 1.
C1_AckMirrorsRecord ==
    Dispatched =>
        /\ Len(acks) = 1
        /\ acks[1].command_type = last_cmd.command_type
        /\ acks[1].engine_number = last_cmd.engine_number
        /\ acks[1].bool_value = last_cmd.bool_value
        /\ acks[1].value \in {0, 1}

\* an unknown discriminant carrying value 15, dispatched while not connected
\* and with protowhistle on
C1_Witness ==
    /\ Dispatched
    /\ last_cmd.command_type = 255
    /\ last_cmd.value = 15
    /\ ~conn_at_dispatch
    /\ protowhistle_enabled
    /\ Len(acks) = 1

\* C2: the response reports success only if every string produced for the
\* record was written to the connection.
C2_SuccessOnlyIfWritten ==
    (Dispatched /\ acks[1].value = 1) => \A i \in 1..Len(sent) : accepted[i]

\* C3: a send refused because the manager is not Connected writes nothing and
\* its failure reaches the caller, whose outcome for the record is failure.
C3_RefusedSendReportsFailure ==
    (Dispatched /\ ~conn_at_dispatch /\ sent # <<>>) =>
        /\ wire = <<>>
        /\ acks[1].value = 0

\* C6: a CMD_WHISTLE record produces no string while protowhistle_enabled is
\* true, and exactly one, "w2" for flag true and "bFFFD" for flag false,
\* while it is false.
C6_WhistleMutualExclusion ==
    (Dispatched /\ last_cmd.command_type = CMD_WHISTLE) =>
        IF pw_at_dispatch THEN sent = <<>>
        ELSE sent = << IF last_cmd.bool_value THEN <<119, 50>>
                       ELSE <<98, 70, 70, 70, 68>> >>

\* a regular whistle suppressed by protowhistle mode
C6_Witness ==
    /\ Dispatched
    /\ last_cmd.command_type = CMD_WHISTLE
    /\ last_cmd.bool_value
    /\ pw_at_dispatch
    /\ sent = <<>>

\* C7: with the schedule of the key {0x0100, 0x0302, 0x0504, 0x0706} the
\* block {0x6574, 0x694c} encrypts to what Speck32/64 gives for that key and
\* block (in either order of the block's and of the key's words).
C7_MatchesReferenceSpeck ==
    (pc = "cipher_done" /\ key = DefaultKey /\ pt[0] = 25972 /\ pt[1] = 26956) =>
        LET l == [i \in 0..2 |-> key[i + 1]]
            lr == [i \in 0..2 |-> key[2 - i]]
            a == RefSpeck(key[0], l, pt[0], pt[1])
            b == RefSpeck(key[0], l, pt[1], pt[0])
            c == RefSpeck(key[3], lr, pt[0], pt[1])
            d == RefSpeck(key[3], lr, pt[1], pt[0])
        IN  \/ (ct[0] = a.x /\ ct[1] = a.y)
            \/ (ct[1] = b.x /\ ct[0] = b.y)
            \/ (ct[0] = c.x /\ ct[1] = c.y)
            \/ (ct[1] = d.x /\ ct[0] = d.y)

\* the zero-padded plaintext of s: byte j, counted from 0
PlainByte(s, j) == IF j < Len(s) THEN s[j + 1] ELSE 0

\* the smallest multiple of 4 that is >= n
CeilTo4(n) == CHOOSE m \in n..(n + 3) : m % 4 = 0

\* C8: in encrypted mode a string of length L written while Connected puts
\* exactly 4 * ceil(L / 4) bytes on the connection: block k is the string's
\* bytes 4k..4k+3 (zero beyond L) packed big-endian into two words, encrypted,
\* and written high byte first, in block order.
C8_PaddedBlocksOnWire ==
    (Dispatched /\ encryption_enabled /\ conn_at_dispatch /\ Len(sent) = 1) =>
        LET s == sent[1]
            n == CeilTo4(Len(s))
        IN  /\ Len(wire) = n
            /\ \A k \in 0..((n \div 4) - 1) :
                  LET p == [j \in 0..1 |-> PlainByte(s, 4 * k + 2 * j) * 256
                                           + PlainByte(s, 4 * k + 2 * j + 1)]
                      c == speck_encrypt(p, round_keys)
                  IN  /\ wire[4 * k + 1] = c[0] \div 256
                      /\ wire[4 * k + 2] = c[0] % 256
                      /\ wire[4 * k + 3] = c[1] \div 256
                      /\ wire[4 * k + 4] = c[1] % 256

\* the five-character "bFFFB" written while connected: two blocks, the second
\* padded with three zero bytes
C8_Witness ==
    /\ Dispatched
    /\ conn_at_dispatch
    /\ encryption_enabled
    /\ sent = << <<98, 70, 70, 70, 66>> >>
    /\ Len(wire) = 8

\* C9: {type = Speed, entity = 1, value = 15, flag = false} dispatched while
\* Connected, encryption on, produces exactly "s15", written as the one
\* encrypted block of 's', '1', '5', 0, and is acknowledged as success.
C9_Speed15EndToEnd ==
    (Dispatched /\ last_cmd = Packet(CMD_SPEED, 1, 15, FALSE)
                /\ conn_at_dispatch /\ encryption_enabled) =>
        LET c == speck_encrypt([j \in 0..1 |-> IF j = 0 THEN 115 * 256 + 49
                                               ELSE 53 * 256 + 0], round_keys)
        IN  /\ sent = << <<115, 49, 53>> >>
            /\ wire = << c[0] \div 256, c[0] % 256, c[1] \div 256, c[1] % 256 >>
            /\ Len(wire) = 4
            /\ acks = << [command_type |-> CMD_SPEED, engine_number |-> 1,
                          value |-> 1, bool_value |-> FALSE] >>

C9_Witness ==
    /\ Dispatched
    /\ last_cmd = Packet(CMD_SPEED, 1, 15, FALSE)
    /\ conn_at_dispatch
    /\ encryption_enabled
    /\ Len(wire) = 4

\* C10: a record whose dispatch produces no command string is acknowledged
\* as failure (value 0).
C10_NoStringMeansFailure ==
    (Dispatched /\ sent = <<>>) => acks[1].value = 0

C5_AllAttemptsThrottled ==
    Len(attempt_log) = 2 => attempt_log[2].t - attempt_log[1].t >= 5000

-----------------------------------------------------------------------------
(* Properties of the loop *)

\* a step of loop() in which receiveCommandFromMPU calls executeMTHCommand
DispatchStep == pc = "loop_recv" /\ pc' = "loop_maintain" /\ RecordComplete

\* C11: a record whose command_type is none of the switch's case labels
\* produces no command string and no write to the connection, leaves
\* protowhistle_enabled, protowhistle_pitch and the connection state as they
\* were, is answered with value 0, and leaves the intake empty and the loop
\* at its next call, ready for the next record.
C11_UnknownDiscriminant ==
    [][(DispatchStep /\ last_cmd'.command_type \notin KnownTypes) =>
          /\ sent' = <<>>
          /\ wire' = <<>>
          /\ protowhistle_enabled' = protowhistle_enabled
          /\ protowhistle_pitch' = protowhistle_pitch
          /\ wtiu_connected' = wtiu_connected
          /\ link_up' = link_up
          /\ wtiu_host' = wtiu_host
          /\ wtiu_port' = wtiu_port
          /\ last_connection_attempt' = last_connection_attempt
          /\ Len(acks') = 1
          /\ acks'[1].command_type = last_cmd'.command_type
          /\ acks'[1].value = 0
          /\ bytes_received' = 0
          /\ pc' = "loop_maintain"]_vars

\* an unknown record dispatched by the loop while Connected and in
\* protowhistle mode
C11_Witness ==
    /\ pc = "loop_maintain"
    /\ last_cmd.command_type = 255
    /\ sent = <<>>
    /\ wire = <<>>
    /\ acks[1].value = 0
    /\ bytes_received = 0
    /\ protowhistle_enabled
    /\ wtiu_connected
    /\ link_up

\* C12: when a write to the connection fails during sendMTHCommand, the
\* manager is Disconnected by the start of the next pass of loop(): once the
\* maintenance step of the pass has run, wtiu_connected is false or that step
\* has itself made a reconnection attempt.
C12_WriteFailureDisconnects ==
    (pc = "loop_delay" /\ write_failed) =>
        (~wtiu_connected \/ last_connection_attempt = now)

\* a step in which discoverWTIU ran
AttemptStep == attempt_log' # attempt_log

\* C13: a discovery attempt that ends without a successful connect (no
\* candidates, every candidate refused, or WiFi down) leaves wtiu_host and
\* wtiu_port as they were before the attempt.
C13_AddressKeptOnFailure ==
    [][(AttemptStep /\ ~wtiu_connected') =>
          (wtiu_host' = wtiu_host /\ wtiu_port' = wtiu_port)]_vars

\* w is the encrypted form of the one string s: its zero-padded 4-byte blocks,
\* each packed big-endian, encrypted under K and written high byte first
WireIs(w, s, K) ==
    LET n == CeilTo4(Len(s))
    IN  /\ Len(w) = n
        /\ \A k \in 0..((n \div 4) - 1) :
              LET p == [j \in 0..1 |-> PlainByte(s, 4 * k + 2 * j) * 256
                                       + PlainByte(s, 4 * k + 2 * j + 1)]
                  c == speck_encrypt(p, K)
              IN  /\ w[4 * k + 1] = c[0] \div 256
                  /\ w[4 * k + 2] = c[0] % 256
                  /\ w[4 * k + 3] = c[1] \div 256
                  /\ w[4 * k + 4] = c[1] % 256

\* C14: nothing is stored and forwarded.  Bytes are written to the connection
\* only in the step that dispatches a record, and they are the encoding of
\* that record's own string and nothing else: nothing when the manager is not
\* Connected at that moment, and a string refused then is not written by any
\* later step, reconnection included.
C14_NoStoreAndForward ==
    [][/\ (wire' # wire => DispatchStep)
       /\ DispatchStep =>
             IF CanSend /\ sent' # <<>>
             THEN Len(sent') = 1 /\ WireIs(wire', sent'[1], round_keys)
             ELSE wire' = <<>>]_vars

\* a command string dropped while Disconnected, the manager reconnected by the
\* maintenance step since, and nothing written
C14_Witness ==
    /\ Dispatched
    /\ ~conn_at_dispatch
    /\ sent # <<>>
    /\ wire = <<>>
    /\ pc = "loop_delay"
    /\ wtiu_connected
    /\ link_up
    /\ Len(attempt_log) = 2
    /\ attempt_log[2].by = "maintain"

\* C15: recovery is automatic.  If WiFi is up from the second pass of loop()
\* on and every discovery of the loop finds a candidate that accepts,
\* then with loop() running for ever and time advancing the manager becomes
\* Connected, and a record dispatched while it is Connected is written to the
\* connection.
C15_AutomaticRecovery ==
    [](iter >= 1 => wifi_up) =>
        /\ <>(wtiu_connected /\ link_up)
        /\ []((Dispatched /\ conn_at_dispatch /\ sent # <<>>) => wire # <<>>)

\* Connected by a later discovery of maintainWTIUConnection after setup()
\* found no WiFi, and a record written since
C15_Witness ==
    /\ Len(attempt_log) = 2
    /\ now > LED_TEST_MS + WIFI_POLLS * WIFI_POLL_MS
    /\ attempt_log[2].by = "maintain"
    /\ attempt_log[2].t > attempt_log[1].t
    /\ wtiu_connected
    /\ link_up
    /\ Dispatched
    /\ conn_at_dispatch
    /\ wire # <<>>

\* bytes receiveCommandFromMPU has taken out of the serial buffer so far
Consumed == rx_bytes - serial_avail

\* C16: intake is framed by byte count alone.  executeMTHCommand has been
\* called once for every full sizeof(CommandPacket) bytes taken from the
\* serial port and the bytes beyond the last full record are held, fewer than
\* a record, in the buffer; so with everything consumed after n bytes exactly
\* floor(n / sizeof(CommandPacket)) records have been dispatched.
C16_ByteCountFraming ==
    /\ n_dispatched = Consumed \div PACKET_SIZE
    /\ bytes_received = Consumed % PACKET_SIZE
    /\ serial_avail = 0 => n_dispatched = rx_bytes \div PACKET_SIZE

\* fifteen bytes received in pieces and all consumed: two records dispatched,
\* three bytes held for the third
C16_Witness ==
    /\ rx_bytes = 15
    /\ serial_avail = 0
    /\ n_dispatched = 2
    /\ bytes_received = 3

\* C17: within loop() a record runs to completion before anything else.  The
\* step that dispatches it takes exactly the bytes that complete it, writes
\* all the blocks of its string and its one response, and contains no
\* discovery or connect; discovery runs only in setup() and in the maintenance
\* step, which follows the receive step of the same pass and writes nothing;
\* and the steps of a pass come in the order receive, maintain, delay.
C17_RecordRunsToCompletion ==
    [][/\ pc' # pc =>
             <<pc, pc'>> \in {<<"setup", "loop_recv">>, <<"loop_recv", "loop_maintain">>,
                              <<"loop_maintain", "loop_delay">>, <<"loop_delay", "loop_recv">>}
       /\ DispatchStep =>
             /\ serial_avail' = serial_avail - (PACKET_SIZE - bytes_received)
             /\ bytes_received' = 0
             /\ Len(sent') <= 1
             /\ Len(wire') = IF CanSend /\ sent' # <<>> THEN CeilTo4(Len(sent'[1])) ELSE 0
             /\ Len(acks') = 1
             /\ acks'[1].command_type = last_cmd'.command_type
             /\ ~AttemptStep
             /\ wtiu_connected' = wtiu_connected
             /\ wtiu_host' = wtiu_host
             /\ wtiu_port' = wtiu_port
       /\ AttemptStep =>
             /\ pc \in {"setup", "loop_maintain"}
             /\ wire' = wire
             /\ acks' = acks
             /\ last_cmd' = last_cmd]_vars

\* a record dispatched and written whole while the first bytes of the next
\* one wait in the serial buffer, the maintenance step still to come
C17_Witness ==
    /\ pc = "loop_maintain"
    /\ Dispatched
    /\ conn_at_dispatch
    /\ Len(wire) = 4
    /\ Len(acks) = 1
    /\ bytes_received = 0
    /\ serial_avail = 3

\* w, written for the strings strs, has the form of the transport mode enc:
\* whole 4-byte blocks that are not the text itself, or the text and CR LF
ModeFormat(w, strs, enc) ==
    /\ Len(strs) = 1
    /\ IF enc
       THEN /\ Len(w) = CeilTo4(Len(strs[1]))
            /\ w # strs[1] \o <<13, 10>>
            /\ SubSeq(w, 1, Len(strs[1])) # strs[1]
       ELSE w = strs[1] \o <<13, 10>>

\* C18: the transport mode is fixed for the session.  No step changes
\* encryption_enabled, and whatever a dispatch writes is, in the mode in
\* force, either the 4-byte ciphertext blocks of its string or the string
\* followed by CR LF, never a mix.
C18_TransportModeFixed ==
    [][/\ encryption_enabled' = encryption_enabled
       /\ (wire' # wire /\ wire' # <<>>) =>
             ModeFormat(wire', sent', encryption_enabled)]_vars

\* the pitch string "ab29" written as one ciphertext block
C18_Witness ==
    /\ Dispatched
    /\ encryption_enabled
    /\ last_cmd.command_type = CMD_PROTOWHISTLE
    /\ last_cmd.value = 13
    /\ sent = << <<97, 98, 50, 57>> >>
    /\ Len(wire) = 4

\* the schedule of the built-in key, worked out by hand from speck_expand
DefaultSchedule ==
    LET S == <<256, 772, 3339, 7458, 21317, 41925, 35972, 30856, 55453, 50197, 61676,
               40977, 2284, 48544, 64120, 36969, 65248, 56223, 10575, 61500, 14244,
               55339>>
    IN  [i \in 0..(SPECK_ROUNDS - 1) |-> S[i + 1]]

\* C19: the schedule is derived once, in setup(), before any record is
\* dispatched: the step out of setup() leaves round_keys = speck_expand(key),
\* the schedule of the built-in key, and no later step, dispatch, send,
\* discovery or maintenance, changes round_keys or key.
C19_ScheduleDerivedOnce ==
    [][/\ pc = "setup" =>
             /\ ~Dispatched
             /\ key' = key
             /\ round_keys' = speck_expand(key)
             /\ round_keys' = DefaultSchedule
       /\ pc # "setup" =>
             /\ key' = key
             /\ round_keys' = round_keys]_vars

\* records dispatched and written, a rediscovery made, and the loop in its
\* third pass
C19_Witness ==
    /\ iter >= 2
    /\ Dispatched
    /\ conn_at_dispatch
    /\ wire # <<>>
    /\ Len(attempt_log) = 2
    /\ attempt_log[2].by = "maintain"
    /\ round_keys = DefaultSchedule

\* C20: speck_expand is a function of the key, and the schedule of the
\* built-in key with any single one of its 64 bits flipped differs from the
\* schedule of the built-in key in at least one of its 22 words.
C20_KeyBitChangesSchedule ==
    pc # "cipher_expand" =>
        /\ round_keys = speck_expand(key)
        /\ key \in FlippedKeys =>
              \E i \in 0..(SPECK_ROUNDS - 1) : round_keys[i] # speck_expand(DefaultKey)[i]

\* the top bit of the last key word flipped: the first words of the schedule
\* are those of the built-in key, a later one is not
C20_Witness ==
    /\ pc = "cipher_done"
    /\ key = [DefaultKey EXCEPT ![3] = 1798 + 32768]
    /\ round_keys[0] = DefaultSchedule[0]
    /\ round_keys[1] = DefaultSchedule[1]
    /\ round_keys # DefaultSchedule

-----------------------------------------------------------------------------
(* Properties of the dispatcher and of the connection manager *)

\* the decimal digits of an engine number of one or two digits
EngineDigits(e) ==
    IF e < 10 THEN <<48 + e>> ELSE <<48 + (e \div 10), 48 + (e % 10)>>

\* C21: an engine-select record with engine number e in 1..99 produces exactly
\* one string, 'y' followed by the decimal of e itself, without an offset
\* (1 gives 'y1', 11 gives 'y11', 99 gives 'y99'), whatever the value and the
\* flag of the record.
C21_EngineSelectDirect ==
    (/\ Dispatched
     /\ last_cmd.command_type = CMD_ENGINE_SELECT
     /\ last_cmd.engine_number \in 1..99)
        => /\ sent = << <<121>> \o EngineDigits(last_cmd.engine_number) >>
           /\ (last_cmd.engine_number = 1 => sent = << <<121, 49>> >>)
           /\ (last_cmd.engine_number = 11 => sent = << <<121, 49, 49>> >>)
           /\ (last_cmd.engine_number = 99 => sent = << <<121, 57, 57>> >>)
           /\ protowhistle_enabled = pw_at_dispatch

C21_Witness ==
    /\ Dispatched
    /\ last_cmd = Packet(CMD_ENGINE_SELECT, 1, 15, TRUE)
    /\ sent = << <<121, 49>> >>
    /\ conn_at_dispatch

\* C22: nothing is fatal.  Against any network (WTIU absent, discovery failed,
\* connects refused, link or WiFi lost) and with records of unknown type, every
\* pass of loop() is followed by the next one, and a record whose bytes have
\* all been written by the MPU is dispatched and answered with a response.
C22_NothingFatal ==
    /\ \A k \in 0..(MaxIter - 1) : (iter = k) ~> (iter = k + 1)
    /\ \A k \in 1..(MaxIter + 1) :
          (/\ rx_bytes >= k * PACKET_SIZE
           /\ n_dispatched = k - 1
           /\ iter < MaxIter)
              ~> (n_dispatched >= k /\ Len(acks) = 1)

\* the third pass, never connected, the WiFi down, two records answered, the
\* last of them of unknown type
C22_Witness ==
    /\ iter >= 2
    /\ ~wtiu_connected
    /\ ~wifi_up
    /\ attempt_log # <<>>
    /\ attempt_log[Len(attempt_log)].by = "maintain"
    /\ n_dispatched = 2
    /\ last_cmd.command_type = 255
    /\ acks = <<Packet(255, 1, 0, TRUE)>>

\* C23: a discovery or connect is started only while the manager is not
\* Connected with a live link; an open connection is always the one of a
\* manager in state Connected, so a connect never opens a second one, and the
\* state is one of the two values of the flag between any two steps.
C23_AttemptOnlyWhenDisconnected ==
    /\ [][AttemptStep => ~(wtiu_connected /\ link_up)]_vars
    /\ [][(AttemptStep /\ link_up') => ~link_up]_vars
    /\ [](link_up => wtiu_connected)
    /\ [](wtiu_connected \in BOOLEAN)

\* a reconnect by maintainWTIUConnection to the second service of the answer
C23_Witness ==
    /\ Len(attempt_log) = 2
    /\ attempt_log[1].by = "setup"
    /\ attempt_log[2].by = "maintain"
    /\ mdns_answer = << <<2, 1>>, {1} >>
    /\ wtiu_connected
    /\ link_up
    /\ wtiu_host = 1

\* C24: the two whistle mechanisms are never both active: in no reachable
\* state is the whistle sounding (the last whistle-sound command of a whistle
\* record was 'w2', no 'bFFFD' since) while protowhistle_enabled is true.
C24_WhistlesNeverBothActive ==
    ~(whistle_sounding /\ protowhistle_enabled)

\* the services of answer a that accept a connection, by position in the answer
Accepting(a) == {i \in 1..Len(a[1]) : a[1][i] \in a[2]}
FirstAccepting(a) == CHOOSE i \in Accepting(a) : \A j \in Accepting(a) : i <= j

\* C25: discoverWTIU tries the services in the order of the answer and stops
\* at the first whose connect succeeds: it ends Connected to that one, no later
\* one having been tried; with an empty answer, or every connect failing, it
\* ends Disconnected, every service having been tried up to the last.
C25_CandidatesInOrder ==
    [][AttemptStep =>
         LET a == mdns_answer'
         IN  IF wifi_up' /\ Accepting(a) # {}
             THEN /\ wtiu_connected'
                  /\ link_up'
                  /\ wtiu_host' = a[1][FirstAccepting(a)]
                  /\ wtiu_port' = CandPort(a[1][FirstAccepting(a)])
             ELSE /\ ~wtiu_connected'
                  /\ ~link_up'
                  /\ a[1] # <<>> => wtiu_host' = a[1][Len(a[1])]
                  /\ a[1] = <<>> => wtiu_host' = wtiu_host
    ]_vars

\* both services accept, the one answered first is the one connected to
C25_Witness ==
    /\ mdns_answer = << <<2, 1>>, {1, 2} >>
    /\ attempt_log # <<>>
    /\ attempt_log[Len(attempt_log)].by = "maintain"
    /\ wtiu_connected
    /\ link_up
    /\ wtiu_host = 2
    /\ wtiu_port = CandPort(2)

\* C26: when the link of a Connected manager is lost, the first
\* maintainWTIUConnection step that sees it leaves the state Disconnected
\* unless its own discovery connects again; while Disconnected sends are
\* refused; the state becomes Connected, and sends possible, only by a step in
\* which a discovery connects to a service that accepts.
C26_LinkLossDisconnects ==
    /\ [][(pc = "loop_maintain" /\ pc' # pc /\ wtiu_connected /\ ~link_up)
              => (wtiu_connected' => (AttemptStep /\ link_up'))]_vars
    /\ [](~wtiu_connected => ~CanSend)
    /\ [][((~wtiu_connected /\ wtiu_connected') \/ (~CanSend /\ CanSend'))
              => /\ AttemptStep
                 /\ wifi_up'
                 /\ Accepting(mdns_answer') # {}
                 /\ link_up']_vars

\* Connected by setup() with the WiFi up, the link then lost and seen lost by
\* the first pass of the loop, too early for a retry
C26_Witness ==
    /\ attempt_log = <<[t |-> LED_TEST_MS, by |-> "setup"]>>
    /\ mdns_answer = << <<1>>, {1} >>
    /\ wtiu_host = 1
    /\ pc = "loop_delay"
    /\ ~wtiu_connected
    /\ ~link_up

\* the schedule built as the description has it: the accumulator is emitted,
\* rotated right by 7 and has the key word added; the key word is rotated left
\* by 2 and has the round index XORed into it
RECURSIVE DescribedLoop(_, _, _, _)
DescribedLoop(i, b, a, S) ==
    IF i = SPECK_ROUNDS THEN S
    ELSE LET j == i % (SPECK_KEY_LEN - 1)
             nb == U16(ROR(b, 7) + a[j])
             na == BitXor(ROL(a[j], 2), i)
         IN  DescribedLoop(i + 1, nb, [a EXCEPT ![j] = na], [S EXCEPT ![i] = b])

DescribedSchedule(K) ==
    DescribedLoop(0, K[0], [j \in 0..(SPECK_KEY_LEN - 2) |-> K[j + 1]],
                  [i \in 0..(SPECK_ROUNDS - 1) |-> 0])

\* C27: the schedule speck_expand derives is the one of the description: S[i]
\* is the accumulator before round i (S[0] = K[0]); round i rotates the
\* accumulator right by 7 and adds K[1 + (i mod 3)] to it, rotates that key
\* word left by 2 and XORs the round index i into the key word, modulo 2^16.
C27_ScheduleAsDescribed ==
    pc # "cipher_expand" => round_keys = DescribedSchedule(key)

\* 16-bit rotations written with arithmetic: the bits pushed out at one end
\* come back in at the other
RotL2(x) == ((x * 4) % WordMod) + (x \div (WordMod \div 4))
RotR7(x) == (x \div 128) + ((x % 128) * (WordMod \div 128))

\* rounds i..21 of the description applied to the block (w0, w1)
RECURSIVE DescribedRounds(_, _, _, _)
DescribedRounds(i, w0, w1, S) ==
    IF i = 22 THEN <<w0, w1>>
    ELSE LET n1 == BitXor((RotL2(w1) + w0) % WordMod, S[i])
             n0 == BitXor(RotR7(w0), n1)
         IN  CASE n0 \in Nat /\ n1 \in Nat -> DescribedRounds(i + 1, n0, n1, S)

\* C28: speck_encrypt applies exactly 22 rounds in the order of the schedule,
\* round i taking w1 to ((ROL(w1,2) + w0) mod 2^16) XOR S[i] and then w0 to
\* ROR(w0,7) XOR the new w1, the rotations wrapping at 16 bits; both words of
\* the result are within 16 bits.
C28_EncryptRounds ==
    pc = "cipher_done" =>
        /\ <<ct[0], ct[1]>> = DescribedRounds(0, pt[0], pt[1], round_keys)
        /\ ct[0] \in 0..(WordMod - 1)
        /\ ct[1] \in 0..(WordMod - 1)

\* a block whose rotations and addition wrap in the first round
C28_Witness ==
    /\ pc = "cipher_done"
    /\ key = DefaultKey
    /\ pt[0] = 65535
    /\ pt[1] = 32768
    /\ ct # pt

\* C29: a protowhistle record with value 0 emits 'ab20' and sets the mode when
\* its flag is true, emits 'ab21' and clears the mode when it is false; with
\* value 1 (quill) it emits 'w2' or 'bFFFD' by the flag while the mode is on
\* and nothing while it is off, and leaves the mode as it was.
C29_ModeAndQuill ==
    (Dispatched /\ last_cmd.command_type = CMD_PROTOWHISTLE) =>
        /\ last_cmd.value = 0 =>
              /\ sent = << IF last_cmd.bool_value THEN <<97, 98, 50, 48>>
                           ELSE <<97, 98, 50, 49>> >>
              /\ protowhistle_enabled = last_cmd.bool_value
        /\ last_cmd.value = 1 =>
              /\ pw_at_dispatch =>
                    sent = << IF last_cmd.bool_value THEN <<119, 50>>
                              ELSE <<98, 70, 70, 70, 68>> >>
              /\ ~pw_at_dispatch => sent = <<>>
              /\ protowhistle_enabled = pw_at_dispatch

\* a quill record in protowhistle mode, written to the WTIU
C29_Witness ==
    /\ last_cmd = Packet(CMD_PROTOWHISTLE, 1, 1, TRUE)
    /\ pw_at_dispatch
    /\ protowhistle_enabled
    /\ sent = << <<119, 50>> >>
    /\ accepted = <<TRUE>>

\* C30: a protowhistle record with value v in 10..13 emits exactly one string,
\* 'ab' followed by the decimal of v + 16 (ab26..ab29), and stores the pitch
\* v - 10; the stored pitch is always in 0..3; a value other than 0, 1, 2 and
\* 10..13 emits nothing and leaves pitch and mode as they were.
C30_PitchSelection ==
    /\ [](protowhistle_pitch \in 0..3)
    /\ [][last_cmd'.command_type = CMD_PROTOWHISTLE =>
             LET v == last_cmd'.value
             IN  /\ v \in 10..13 =>
                       /\ sent' = << <<97, 98, 50, 54 + (v - 10)>> >>
                       /\ protowhistle_pitch' = v - 10
                 /\ v \notin ({0, 1, 2} \cup (10..13)) =>
                       /\ sent' = <<>>
                       /\ protowhistle_pitch' = protowhistle_pitch
                       /\ protowhistle_enabled' = protowhistle_enabled
       ]_vars

\* the highest pitch selected in protowhistle mode after a lower one
C30_Witness ==
    /\ last_cmd = Packet(CMD_PROTOWHISTLE, 1, 13, FALSE)
    /\ sent = << <<97, 98, 50, 57>> >>
    /\ protowhistle_pitch = 3
    /\ protowhistle_enabled
    /\ conn_at_dispatch

-----------------------------------------------------------------------------
(* Properties of the translation, of the retry clock and of the block cipher *)

\* the string of a flag-only command, by type and flag alone
FlagString(t, b) ==
    IF t = CMD_DIRECTION THEN (IF b THEN <<100, 49>> ELSE <<100, 48>>)
    ELSE IF t = CMD_BELL THEN (IF b THEN <<119, 52>> ELSE <<98, 70, 70, 70, 66>>)
    ELSE IF t = CMD_STARTUP THEN <<117, 52>>
    ELSE <<117, 53>>

\* C31: direction, bell, startup and shutdown records translate by type and
\* flag alone, whatever the engine, the value and the whistle mode: 'd1'/'d0',
\* 'w4'/'bFFFB', 'u4', 'u5'; each gives exactly one string.
C31_FlagOnlyCommands ==
    (Dispatched /\ last_cmd.command_type \in FlagTypes) =>
        /\ sent = << FlagString(last_cmd.command_type, last_cmd.bool_value) >>
        /\ protowhistle_enabled = pw_at_dispatch

\* bell off for engine 255 with the largest value, in protowhistle mode
C31_Witness ==
    /\ last_cmd = Packet(CMD_BELL, 255, 65535, FALSE)
    /\ pw_at_dispatch
    /\ sent = << <<98, 70, 70, 70, 66>> >>
    /\ conn_at_dispatch

\* C32: after a protowhistle record with value 0 or 2 the mode equals the flag
\* of the record whether or not the manager was Connected: it is updated also
\* when the 'ab20'/'ab21' string was refused by sendMTHCommand.
C32_ModeSetWhenDropped ==
    (/\ Dispatched
     /\ last_cmd.command_type = CMD_PROTOWHISTLE
     /\ last_cmd.value \in {0, 2})
        => /\ protowhistle_enabled = last_cmd.bool_value
           /\ sent = << IF last_cmd.bool_value THEN <<97, 98, 50, 48>>
                        ELSE <<97, 98, 50, 49>> >>
           /\ ~conn_at_dispatch => (wire = <<>> /\ accepted = <<FALSE>>)

\* the mode switched on by a value-2 record while Disconnected
C32_Witness ==
    /\ last_cmd = Packet(CMD_PROTOWHISTLE, 1, 2, TRUE)
    /\ ~conn_at_dispatch
    /\ ~pw_at_dispatch
    /\ protowhistle_enabled
    /\ wire = <<>>

\* C33: protowhistle values 0 and 2 are equivalent: from the same state and
\* with the same flag both emit the same string, leave the same mode and are
\* answered with the same response.  What a dispatched record of one of
\* the two left behind is what the translation of its twin gives from the
\* state it was dispatched in, and the translations agree in every state.
C33_ValueZeroAndTwoEquivalent ==
    /\ \A b \in BOOLEAN :
          LET r0 == Translate(Packet(CMD_PROTOWHISTLE, 1, 0, b),
                              protowhistle_enabled, protowhistle_pitch)
              r2 == Translate(Packet(CMD_PROTOWHISTLE, 1, 2, b),
                              protowhistle_enabled, protowhistle_pitch)
          IN  r0 = r2
    /\ (/\ Dispatched
        /\ last_cmd.command_type = CMD_PROTOWHISTLE
        /\ last_cmd.value \in {0, 2})
          => LET twin == [last_cmd EXCEPT !.value = 2 - last_cmd.value]
                 r == Translate(twin, pw_at_dispatch, protowhistle_pitch)
             IN  /\ sent = r.strs
                 /\ protowhistle_enabled = r.pw
                 /\ acks = <<Response(twin, r.command_sent)>>

\* the mode switched off by a value-2 record, as a value-0 record would
C33_Witness ==
    /\ last_cmd = Packet(CMD_PROTOWHISTLE, 1, 2, FALSE)
    /\ pw_at_dispatch
    /\ ~protowhistle_enabled
    /\ sent = <<STR_ab21>>
    /\ acks[1].value = 1

\* C34: the retry gate is (millis() - last_connection_attempt) mod 2^32 >= 5000
\* on unsigned 32-bit values: wherever the last attempt lies in the range of
\* the counter, and also when the counter has rolled over since, an attempt is
\* permitted exactly when the time gone by (below 2^32 ms) is at least 5000 ms.
C34_GateAcrossRollover ==
    pc = "clock_done" =>
        (clock_due <=> (clock_elapsed.hi > 0 \/ clock_elapsed.lo >= 5000))

\* the last attempt 1000 ms before the rollover, the gate asked 5000 ms later
C34_Witness ==
    /\ pc = "clock_done"
    /\ clock_last = [hi |-> 65535, lo |-> 64536]
    /\ clock_elapsed = [hi |-> 0, lo |-> 5000]
    /\ ULongAdd(clock_last, clock_elapsed) = [hi |-> 0, lo |-> 4000]
    /\ clock_due

RotL7(x) == ((x * 128) % WordMod) + (x \div (WordMod \div 128))
RotR2(x) == (x \div 4) + ((x % 4) * (WordMod \div 4))

\* the rounds i, i-1, .. 0 of speck_encrypt undone on the block (w0, w1)
RECURSIVE UndoRounds(_, _, _, _)
UndoRounds(i, w0, w1, S) ==
    IF i < 0 THEN <<w0, w1>>
    ELSE LET p0 == RotL7(BitXor(w0, w1))
             p1 == RotR2((BitXor(w1, S[i]) - p0 + WordMod) % WordMod)
         IN  CASE p0 \in Nat /\ p1 \in Nat -> UndoRounds(i - 1, p0, p1, S)

\* the blocks next to block p: one bit of one word flipped
Neighbours(p) ==
    { [p EXCEPT ![0] = BitXor(p[0], 1)],
      [p EXCEPT ![1] = BitXor(p[1], 32768)],
      [p EXCEPT ![0] = BitXor(p[0], 128), ![1] = BitXor(p[1], 2)] }

\* C35: for a fixed schedule speck_encrypt is injective on blocks: every round
\* can be undone, so the plaintext block is recovered from the ciphertext
\* block and the schedule, and a different block gives a different ciphertext.
C35_EncryptInjective ==
    pc = "cipher_done" =>
        /\ UndoRounds(SPECK_ROUNDS - 1, ct[0], ct[1], round_keys) = <<pt[0], pt[1]>>
        /\ \A q \in Neighbours(pt) : speck_encrypt(q, round_keys) # ct

\* a block of two text bytes under the schedule of the built-in key
C35_Witness ==
    /\ pc = "cipher_done"
    /\ key = DefaultKey
    /\ pt[0] = 13568
    /\ pt[1] = 29489
    /\ ct # pt
    /\ ct # ZeroBlock

\* C36: dispatching a record leaves wtiu_connected, wtiu_host, wtiu_port and
\* last_connection_attempt as they were, and protowhistle_enabled too unless
\* the record is a protowhistle record with value 0 or 2 (no record of the
\* dispatcher's inputs would translate otherwise from the state it is
\* dispatched in); a step of maintainWTIUConnection
\* changes neither protowhistle_enabled nor protowhistle_pitch, so the whistle
\* mode outlives disconnection and reconnection.
C36_FrameOfDispatchAndMaintain ==
    /\ [][DispatchStep =>
            /\ wtiu_connected' = wtiu_connected
            /\ wtiu_host' = wtiu_host
            /\ wtiu_port' = wtiu_port
            /\ last_connection_attempt' = last_connection_attempt
            /\ protowhistle_enabled' # protowhistle_enabled =>
                  /\ last_cmd'.command_type = CMD_PROTOWHISTLE
                  /\ last_cmd'.value \in {0, 2}
            /\ \A cmd \in Records :
                  LET r == Translate(cmd, protowhistle_enabled, protowhistle_pitch)
                  IN  r.pw # protowhistle_enabled =>
                         (cmd.command_type = CMD_PROTOWHISTLE /\ cmd.value \in {0, 2})]_vars
    /\ [][(pc = "loop_maintain" /\ pc' # pc) =>
            /\ protowhistle_enabled' = protowhistle_enabled
            /\ protowhistle_pitch' = protowhistle_pitch]_vars

\* protowhistle mode on, the manager reconnected by maintainWTIUConnection
\* after the record that switched it on was dispatched
C36_Witness ==
    /\ protowhistle_enabled
    /\ last_cmd = Packet(CMD_PROTOWHISTLE, 1, 0, TRUE)
    /\ Len(attempt_log) = 2
    /\ attempt_log[2].by = "maintain"
    /\ wtiu_connected
    /\ link_up
    /\ pc = "loop_delay"
    /\ ~conn_at_dispatch

\* the decimal digits of a number below 100000, digit by digit
Digit(n, k) == 48 + ((n \div (10 ^ k)) % 10)
RawDecimal(n) ==
    IF n < 10 THEN <<Digit(n, 0)>>
    ELSE IF n < 100 THEN <<Digit(n, 1), Digit(n, 0)>>
    ELSE IF n < 1000 THEN <<Digit(n, 2), Digit(n, 1), Digit(n, 0)>>
    ELSE IF n < 10000 THEN <<Digit(n, 3), Digit(n, 2), Digit(n, 1), Digit(n, 0)>>
    ELSE <<Digit(n, 4), Digit(n, 3), Digit(n, 2), Digit(n, 1), Digit(n, 0)>>

\* C37: engine-select and speed are not range-checked: an engine-select record
\* with any engine 0..255 and a speed record with any value 0..65535 emit
\* exactly one string carrying the raw number and are answered with success
\* like a record in range; no string of the dispatcher is longer than 6
\* characters, within the 31 that fit its buffer.
C37_NoRangeValidation ==
    Dispatched =>
        /\ last_cmd.command_type = CMD_ENGINE_SELECT =>
              /\ sent = << <<121>> \o RawDecimal(last_cmd.engine_number) >>
              /\ acks = <<Packet(CMD_ENGINE_SELECT, last_cmd.engine_number, 1,
                                 last_cmd.bool_value)>>
        /\ last_cmd.command_type = CMD_SPEED =>
              /\ sent = << <<115>> \o RawDecimal(last_cmd.value) >>
              /\ acks = <<Packet(CMD_SPEED, last_cmd.engine_number, 1,
                                 last_cmd.bool_value)>>
        /\ \A i \in 1..Len(sent) : Len(sent[i]) <= 6 /\ Len(sent[i]) <= 31

\* the largest speed value, sent as 's65535' and answered with success
C37_Witness ==
    /\ last_cmd = Packet(CMD_SPEED, 1, 65535, FALSE)
    /\ sent = << <<115, 54, 53, 53, 51, 53>> >>
    /\ acks[1].value = 1
    /\ conn_at_dispatch
    /\ Len(wire) = 8

====
